---- MODULE Spec2Model ----
(***************************************************************************)
(* State-machine model of                                                  *)
(*   - the trace-animation event sequencer (trace-animation.ts, the        *)
(*     ancestry-based version; scheduleDeactivation, processNextEvent and  *)
(*     enqueueEvent are textually the same in the first version),          *)
(*   - enhancePrompt's error mapping (promptEnhancement.ts),               *)
(*   - handleEnhanceClick of the prompt editor (PromptMode.tsx),           *)
(*   - checkExistingCLI of the Choreo CLI installer,                       *)
(*   - loadReportData of the evaluation history view.                      *)
(***************************************************************************)
EXTENDS Integers, Sequences, FiniteSets, TLC

\* ---------------------------------------------------------------------------
\* Program constants of trace-animation.ts
\* ---------------------------------------------------------------------------
FADE_OUT_DELAY_MS == 3000
SAFETY_TIMEOUT_MS == 5000
EVENT_STAGGER_DELAY_MS == 400
maxDepth == 20

\* ---------------------------------------------------------------------------
\* Bounds of the model
\* ---------------------------------------------------------------------------
\* largest number of spans in one onNewSpans delivery
MaxBatch == 2
\* Date.now() when the module is loaded (never 0)
StartTime == 1000
\* granularity of the clock
TickStep == 200
\* the clock stops at StartTime + Horizon
Horizon == 7400
\* the trace server delivers spans during the first DeliveryWindow ms
DeliveryWindow == 400

MaxTime == StartTime + Horizon

\* ---------------------------------------------------------------------------
\* Representation of JavaScript values
\* ---------------------------------------------------------------------------
\* undefined string attribute / undefined systemInstructions
Undefined == "undefined"
\* eventQueueTimer === undefined
NoTimer == -1
\* span.startTime missing
NoStartTime == 0
\* Infinity, as used for spans without startTime
Infinity == 1000000

\* ---------------------------------------------------------------------------
\* Generic sequence helpers (Array.prototype.splice)
\* ---------------------------------------------------------------------------
RemoveAt(q, i) == SubSeq(q, 1, i - 1) \o SubSeq(q, i + 1, Len(q))

InsertAt(q, i, x) == SubSeq(q, 1, i - 1) \o <<x>> \o SubSeq(q, i, Len(q))

SetMin(S) == CHOOSE x \in S : \A y \in S : x <= y

\* ---------------------------------------------------------------------------
\* The spans the trace server can deliver: two agents under one root span.
\* Agent A's invoke_agent span carries gen_ai.system_instructions; agent B's
\* does not, its chat span (child of a Wso2ModelProvider:chat wrapper) carries
\* them in gen_ai.input.messages, and its execute_tool span is a sibling of
\* that wrapper.  After the tool agent B calls the model again: chatC, whose own
\* wrapper wrapC is not among the spans delivered.  inputTools is the parsed
\* gen_ai.input.tools array.
\* ---------------------------------------------------------------------------
SpanIds == {"agentA", "agentB", "wrapB", "chatB", "toolB", "chatC"}

SpanTable ==
    [agentA |-> [name |-> "invoke_agent", parentSpanId |-> "root", startTime |-> 1,
                 sysAttr |-> "instrA", msgSystem |-> Undefined,
                 inputTools |-> <<>>, toolName |-> Undefined],
     agentB |-> [name |-> "invoke_agent", parentSpanId |-> "root", startTime |-> 2,
                 sysAttr |-> Undefined, msgSystem |-> Undefined,
                 inputTools |-> <<>>, toolName |-> Undefined],
     wrapB  |-> [name |-> "Wso2ModelProvider:chat", parentSpanId |-> "agentB", startTime |-> 3,
                 sysAttr |-> Undefined, msgSystem |-> Undefined,
                 inputTools |-> <<>>, toolName |-> Undefined],
     chatB  |-> [name |-> "chat", parentSpanId |-> "wrapB", startTime |-> 4,
                 sysAttr |-> Undefined, msgSystem |-> "instrB",
                 inputTools |-> <<"search", "fetch">>, toolName |-> Undefined],
     toolB  |-> [name |-> "execute_tool", parentSpanId |-> "agentB", startTime |-> 5,
                 sysAttr |-> Undefined, msgSystem |-> Undefined,
                 inputTools |-> <<>>, toolName |-> "search"],
     chatC  |-> [name |-> "chat", parentSpanId |-> "wrapC", startTime |-> 6,
                 sysAttr |-> Undefined, msgSystem |-> "instrB",
                 inputTools |-> <<"search", "fetch">>, toolName |-> Undefined]]

\* a delivered span object: the attributes above, its id, and whether endTime is set
Span(id, hasEnd) ==
    [spanId |-> id, endTime |-> hasEnd,
     name |-> SpanTable[id].name, parentSpanId |-> SpanTable[id].parentSpanId,
     startTime |-> SpanTable[id].startTime, sysAttr |-> SpanTable[id].sysAttr,
     msgSystem |-> SpanTable[id].msgSystem, inputTools |-> SpanTable[id].inputTools,
     toolName |-> SpanTable[id].toolName]

\* spans the trace server may also deliver while they are running (no endTime)
InFlightSpans == {"toolB"}

Deliveries == {Span(id, TRUE) : id \in SpanIds} \cup {Span(id, FALSE) : id \in InFlightSpans}

\* the batches onNewSpans can deliver: 1..MaxBatch distinct spans, listed in
\* the order they ended (a span that started later comes first)
Batches ==
    UNION {{b \in [1..n -> Deliveries] :
                \A i \in 1..(n - 1) : b[i].startTime > b[i + 1].startTime} : n \in 1..MaxBatch}

VARIABLES
    now,                      \* Date.now()
    unsubscribe,              \* TRUE while the onNewSpans subscription exists
    activeSpans,              \* Map spanId -> {timer, event}, in insertion order
    processedSpanIds,
    eventQueue,
    eventQueueTimer,          \* due time of the queue timer, or NoTimer
    lastEventActivationTime,
    lastChatSpanId,
    parentMap,
    ancestorInfoMap,
    pendingToolSpans,
    sent,                     \* notifications sent by the last handler, in order
    redelivered,              \* the last handler was processSpans and got these processed spans again
    prevActivation,           \* the last active:true notification since init, before the last handler
    activationCount,          \* active:true notifications per span since the last init
    deactivationCount,        \* active:false notifications per span since the last init
    chatAtActivation,         \* per span: the last chat span, if active, when the span was sent active:true
    delivered                 \* processSpans has run since the last init or dispose

VARIABLES
    editorPrompt,             \* what getCurrentPrompt() returns
    enhancementState,
    originalPromptRef,
    enhancedPromptRef,
    clickPc,                  \* handleEnhanceClick: "idle" or suspended at "awaitAuth"
    clickPrompt,              \* its local currentPrompt
    enhancePc,                \* handleEnhance: "idle" or suspended at "awaitEnhance"
    lastClick,                \* how the last finished handleEnhanceClick went
    modelOutcome,             \* what generateText did in the enhancePrompt call the last handler awaited
    enhanceResult             \* how the promise of that call settled

enhanceVars == <<editorPrompt, enhancementState, originalPromptRef, enhancedPromptRef,
                 clickPc, clickPrompt, enhancePc, lastClick, modelOutcome, enhanceResult>>

VARIABLES
    fs,                       \* the binaries on disk: path -> content
    cliReturn,                \* what the last checkExistingCLI call returned, "none" otherwise
    fsBefore                  \* fs when that call started

cliVars == <<fs, cliReturn, fsBefore>>

VARIABLES
    reportsDir,               \* the files of the reports directory: name -> content
    reportData                \* what the last loadReportData call returned, NoData otherwise

reportVars == <<reportsDir, reportData>>

animVars == <<now, unsubscribe, activeSpans, processedSpanIds, eventQueue, eventQueueTimer,
              lastEventActivationTime, lastChatSpanId, parentMap, ancestorInfoMap,
              pendingToolSpans, sent, redelivered, prevActivation, activationCount,
              deactivationCount, chatAtActivation, delivered>>

vars == <<animVars, enhanceVars, cliVars, reportVars>>

nonAnimVars == <<enhanceVars, cliVars, reportVars>>

nonEnhanceVars == <<animVars, cliVars, reportVars>>

nonCliVars == <<animVars, enhanceVars, reportVars>>

nonReportVars == <<animVars, enhanceVars, cliVars>>

\* ---------------------------------------------------------------------------
\* Module state threaded through the functions of trace-animation.ts
\* ---------------------------------------------------------------------------
Cur ==
    [now |-> now, activeSpans |-> activeSpans, processedSpanIds |-> processedSpanIds,
     eventQueue |-> eventQueue, eventQueueTimer |-> eventQueueTimer,
     lastEventActivationTime |-> lastEventActivationTime,
     lastChatSpanId |-> lastChatSpanId, parentMap |-> parentMap,
     ancestorInfoMap |-> ancestorInfoMap, pendingToolSpans |-> pendingToolSpans,
     sent |-> <<>>]

\* rank of a tool name in JavaScript's default string order
NameRank == [fetch |-> 1, search |-> 2]

RECURSIVE SortNames(_)
SortNames(names) ==
    IF Len(names) = 0 THEN <<>>
    ELSE LET rest == SortNames(Tail(names))
             x == Head(names)
             before == {i \in 1..Len(rest) : NameRank[x] < NameRank[rest[i]]}
             idx == IF before = {} THEN Len(rest) + 1 ELSE SetMin(before)
         IN InsertAt(rest, idx, x)

extractToolNamesFromChatSpan(span) == SortNames(span.inputTools)

extractSystemInstructions(span) ==
    IF span.sysAttr # Undefined THEN span.sysAttr
    ELSE IF span.msgSystem # Undefined THEN span.msgSystem
    ELSE Undefined

getSpanType(name) ==
    IF name = "invoke_agent" THEN "invoke_agent"
    ELSE IF name = "chat" THEN "chat"
    ELSE IF name = "execute_tool" THEN "execute_tool"
    ELSE "null"

sendAnimationEvent(s, event) == [s EXCEPT !.sent = Append(@, event)]

ActiveIndex(s, spanId) ==
    LET hits == {i \in 1..Len(s.activeSpans) : s.activeSpans[i].spanId = spanId}
    IN IF hits = {} THEN 0 ELSE SetMin(hits)

scheduleDeactivation(s, spanId, event, delay) ==
    LET entry == [spanId |-> spanId, timer |-> s.now + delay, event |-> event]
        i == ActiveIndex(s, spanId)
    IN [s EXCEPT !.activeSpans = IF i = 0 THEN Append(@, entry) ELSE [@ EXCEPT ![i] = entry]]

extendChatSpanLifetime(s) ==
    IF s.lastChatSpanId = Undefined \/ ActiveIndex(s, s.lastChatSpanId) = 0 THEN s
    ELSE scheduleDeactivation(s, s.lastChatSpanId,
                              s.activeSpans[ActiveIndex(s, s.lastChatSpanId)].event,
                              SAFETY_TIMEOUT_MS)

RECURSIVE deactivateAllToolsFrom(_, _)
deactivateAllToolsFrom(s, i) ==
    IF i > Len(s.activeSpans) THEN s
    ELSE IF s.activeSpans[i].event.type = "execute_tool"
         THEN deactivateAllToolsFrom(
                  sendAnimationEvent([s EXCEPT !.activeSpans = RemoveAt(@, i)],
                                     [s.activeSpans[i].event EXCEPT !.active = FALSE]), i)
         ELSE deactivateAllToolsFrom(s, i + 1)

\* deactivateAllTools that notifies but leaves the tools and their timers in activeSpans
deactivateAllTools_keepTimers(s) ==
    [deactivateAllToolsFrom(s, 1) EXCEPT !.activeSpans = s.activeSpans]

deactivateAllTools(s) == deactivateAllToolsFrom(s, 1)

\* processNextEvent that leaves the rest of the queue without a timer
processNextEvent_noRearm(s0) ==
    LET s1 == [s0 EXCEPT !.eventQueueTimer = NoTimer]
    IN IF Len(s1.eventQueue) = 0 THEN s1
       ELSE LET event == Head(s1.eventQueue).event
                span == Head(s1.eventQueue).span
                s2 == [s1 EXCEPT !.eventQueue = Tail(@), !.lastEventActivationTime = s1.now]
                s3 == IF event.type = "chat"
                      THEN [deactivateAllTools(s2) EXCEPT !.lastChatSpanId = span.spanId]
                      ELSE IF event.type = "execute_tool" THEN extendChatSpanLifetime(s2)
                      ELSE s2
                s4 == sendAnimationEvent(s3, event)
            IN IF span.endTime
               THEN scheduleDeactivation(s4, span.spanId, event, FADE_OUT_DELAY_MS)
               ELSE scheduleDeactivation(s4, span.spanId, event, SAFETY_TIMEOUT_MS)

processNextEvent(s0) ==
    LET s1 == [s0 EXCEPT !.eventQueueTimer = NoTimer]
    IN IF Len(s1.eventQueue) = 0 THEN s1
       ELSE LET event == Head(s1.eventQueue).event
                span == Head(s1.eventQueue).span
                s2 == [s1 EXCEPT !.eventQueue = Tail(@), !.lastEventActivationTime = s1.now]
                s3 == IF event.type = "chat"
                      THEN [deactivateAllTools(s2) EXCEPT !.lastChatSpanId = span.spanId]
                      ELSE IF event.type = "execute_tool" THEN extendChatSpanLifetime(s2)
                      ELSE s2
                s4 == sendAnimationEvent(s3, event)
                s5 == IF span.endTime
                      THEN scheduleDeactivation(s4, span.spanId, event, FADE_OUT_DELAY_MS)
                      ELSE scheduleDeactivation(s4, span.spanId, event, SAFETY_TIMEOUT_MS)
            IN IF Len(s5.eventQueue) > 0
               THEN [s5 EXCEPT !.eventQueueTimer = s5.now + EVENT_STAGGER_DELAY_MS]
               ELSE s5

SpanTime(span) == IF span.startTime # NoStartTime THEN span.startTime ELSE Infinity

InsertIdx(q, spanTime) ==
    LET hits == {i \in 1..Len(q) : spanTime < SpanTime(q[i].span)}
    IN IF hits = {} THEN Len(q) + 1 ELSE SetMin(hits)

\* enqueueEvent that starts processing whenever no timer is pending
enqueueEvent_noStagger(s, event, span) ==
    LET s1 == [s EXCEPT !.eventQueue =
                   InsertAt(@, InsertIdx(@, SpanTime(span)), [event |-> event, span |-> span])]
    IN IF s1.eventQueueTimer = NoTimer THEN processNextEvent(s1) ELSE s1

enqueueEvent(s, event, span) ==
    LET s1 == [s EXCEPT !.eventQueue =
                   InsertAt(@, InsertIdx(@, SpanTime(span)), [event |-> event, span |-> span])]
        elapsed == s1.now - s1.lastEventActivationTime
    IN IF s1.eventQueueTimer = NoTimer
       THEN IF elapsed >= EVENT_STAGGER_DELAY_MS \/ s1.lastEventActivationTime = 0
            THEN processNextEvent(s1)
            ELSE [s1 EXCEPT !.eventQueueTimer = s1.now + (EVENT_STAGGER_DELAY_MS - elapsed)]
       ELSE s1

\* the value resolveAncestorInfo returns for "undefined"
NoInfo == [systemInstructions |-> Undefined, toolNames |-> <<>>]

RECURSIVE resolveAncestorInfoFrom(_, _, _)
resolveAncestorInfoFrom(s, current, i) ==
    IF i >= maxDepth THEN NoInfo
    ELSE IF current \in DOMAIN s.ancestorInfoMap THEN s.ancestorInfoMap[current]
    ELSE IF current \notin DOMAIN s.parentMap THEN NoInfo
    ELSE resolveAncestorInfoFrom(s, s.parentMap[current], i + 1)

resolveAncestorInfo(s, spanId) == resolveAncestorInfoFrom(s, spanId, 0)

RECURSIVE propagateAncestorInfoFrom(_, _, _, _)
propagateAncestorInfoFrom(s, current, info, i) ==
    IF i >= maxDepth THEN s
    ELSE IF current \notin DOMAIN s.parentMap THEN s
    ELSE IF s.parentMap[current] \in DOMAIN s.ancestorInfoMap THEN s
    ELSE propagateAncestorInfoFrom(
             [s EXCEPT !.ancestorInfoMap = (s.parentMap[current] :> info) @@ @],
             s.parentMap[current], info, i + 1)

propagateAncestorInfo(s, spanId, info) == propagateAncestorInfoFrom(s, spanId, info, 0)

\* returns the boolean result and the module state after the call
tryResolveAndEnqueueToolSpan(s, span, activeToolName) ==
    LET info == resolveAncestorInfo(s, span.spanId)
        event == [type |-> "execute_tool", toolNames |-> info.toolNames,
                  activeToolName |-> activeToolName, spanId |-> span.spanId,
                  active |-> TRUE, systemInstructions |-> info.systemInstructions]
    IN IF info = NoInfo THEN [ok |-> FALSE, s |-> s]
       ELSE [ok |-> TRUE, s |-> enqueueEvent(s, event, span)]

RECURSIVE drainPendingToolSpansFrom(_, _)
drainPendingToolSpansFrom(s, i) ==
    IF i < 1 THEN s
    ELSE LET r == tryResolveAndEnqueueToolSpan(s, s.pendingToolSpans[i].span,
                                               s.pendingToolSpans[i].activeToolName)
         IN IF r.ok
            THEN drainPendingToolSpansFrom([r.s EXCEPT !.pendingToolSpans = RemoveAt(@, i)], i - 1)
            ELSE drainPendingToolSpansFrom(s, i - 1)

drainPendingToolSpans(s) == drainPendingToolSpansFrom(s, Len(s.pendingToolSpans))

\* Phase 1 of processSpans: register every span that has a parent
RECURSIVE registerParents(_, _)
registerParents(s, spans) ==
    IF Len(spans) = 0 THEN s
    ELSE registerParents(
             IF Head(spans).parentSpanId # Undefined
             THEN [s EXCEPT !.parentMap = (Head(spans).spanId :> Head(spans).parentSpanId) @@ @]
             ELSE s,
             Tail(spans))

\* comparator handed to Array.prototype.sort
SortCompare(a, b) ==
    IF a.startTime = NoStartTime \/ b.startTime = NoStartTime THEN 0
    ELSE a.startTime - b.startTime

RECURSIVE InsertSorted(_, _)
InsertSorted(sorted, x) ==
    IF Len(sorted) = 0 THEN <<x>>
    ELSE IF SortCompare(sorted[Len(sorted)], x) > 0
         THEN Append(InsertSorted(SubSeq(sorted, 1, Len(sorted) - 1), x), sorted[Len(sorted)])
         ELSE Append(sorted, x)

\* [...spans].sort(cmp): stable
RECURSIVE SortSpans(_)
SortSpans(spans) ==
    IF Len(spans) = 0 THEN <<>>
    ELSE InsertSorted(SortSpans(SubSeq(spans, 1, Len(spans) - 1)), spans[Len(spans)])

\* processSpan without the processedSpanIds check
processSpan_noDedup(s, span) ==
    LET s1 == [s EXCEPT !.processedSpanIds = @ \cup {span.spanId}]
        spanType == getSpanType(span.name)
        systemInstructions == extractSystemInstructions(span)
        toolNames == IF spanType = "chat" THEN extractToolNamesFromChatSpan(span) ELSE <<>>
        event == [type |-> spanType, toolNames |-> toolNames, activeToolName |-> Undefined,
                  spanId |-> span.spanId, active |-> TRUE,
                  systemInstructions |-> systemInstructions]
        r == tryResolveAndEnqueueToolSpan(s1, span, span.toolName)
    IN IF spanType = "null" THEN s1
       ELSE IF spanType = "chat" \/ spanType = "invoke_agent" THEN enqueueEvent(s1, event, span)
       ELSE IF r.ok THEN r.s
       ELSE [s1 EXCEPT !.pendingToolSpans =
                 Append(@, [span |-> span, activeToolName |-> span.toolName])]

\* body of the Phase 2 loop of processSpans for one span
processSpan(s, span) ==
    IF span.spanId \in s.processedSpanIds
    THEN IF span.endTime /\ ActiveIndex(s, span.spanId) # 0
         THEN scheduleDeactivation(s, span.spanId,
                                   s.activeSpans[ActiveIndex(s, span.spanId)].event,
                                   FADE_OUT_DELAY_MS)
         ELSE s
    ELSE LET s1 == [s EXCEPT !.processedSpanIds = @ \cup {span.spanId}]
             spanType == getSpanType(span.name)
             systemInstructions == extractSystemInstructions(span)
             toolNames == IF spanType = "chat" THEN extractToolNamesFromChatSpan(span) ELSE <<>>
             info == [systemInstructions |-> systemInstructions, toolNames |-> toolNames]
             s2 == IF systemInstructions # Undefined
                   THEN propagateAncestorInfo(
                            IF span.spanId \notin DOMAIN s1.ancestorInfoMap
                            THEN [s1 EXCEPT !.ancestorInfoMap = (span.spanId :> info) @@ @]
                            ELSE s1,
                            span.spanId, info)
                   ELSE s1
             event == [type |-> spanType, toolNames |-> toolNames, activeToolName |-> Undefined,
                       spanId |-> span.spanId, active |-> TRUE,
                       systemInstructions |-> systemInstructions]
             r == tryResolveAndEnqueueToolSpan(s1, span, span.toolName)
         IN IF spanType = "null" THEN s1
            ELSE IF spanType = "chat" \/ spanType = "invoke_agent" THEN enqueueEvent(s2, event, span)
            ELSE IF r.ok THEN r.s
            ELSE [s1 EXCEPT !.pendingToolSpans =
                      Append(@, [span |-> span, activeToolName |-> span.toolName])]

RECURSIVE processSortedSpans(_, _)
processSortedSpans(s, sorted) ==
    IF Len(sorted) = 0 THEN s
    ELSE processSortedSpans(processSpan(s, Head(sorted)), Tail(sorted))

processSpans(s, spans) ==
    drainPendingToolSpans(processSortedSpans(registerParents(s, spans), SortSpans(spans)))

\* a timer callback that notifies but leaves the span in activeSpans
deactivationTimeout_keepEntry(s, spanId, event) ==
    sendAnimationEvent([s EXCEPT !.lastChatSpanId = IF spanId = @ THEN Undefined ELSE @],
                       [event EXCEPT !.active = FALSE])

\* the callback scheduleDeactivation hands to setTimeout
deactivationTimeout(s, spanId, event) ==
    LET i == ActiveIndex(s, spanId)
        s1 == [s EXCEPT !.activeSpans = IF i = 0 THEN @ ELSE RemoveAt(@, i),
                        !.lastChatSpanId = IF spanId = @ THEN Undefined ELSE @]
    IN sendAnimationEvent(s1, [event EXCEPT !.active = FALSE])

\* disposeTraceAnimation that leaves the ancestry maps and the pending buffer alone
disposeTraceAnimation_keepAncestry(s) ==
    [s EXCEPT !.activeSpans = <<>>,
              !.eventQueueTimer = NoTimer,
              !.eventQueue = <<>>,
              !.lastEventActivationTime = 0,
              !.lastChatSpanId = Undefined,
              !.processedSpanIds = {}]

disposeTraceAnimation(s) ==
    [s EXCEPT !.activeSpans = <<>>,
              !.eventQueueTimer = NoTimer,
              !.eventQueue = <<>>,
              !.lastEventActivationTime = 0,
              !.lastChatSpanId = Undefined,
              !.processedSpanIds = {},
              !.parentMap = <<>>,
              !.ancestorInfoMap = <<>>,
              !.pendingToolSpans = <<>>]

\* ---------------------------------------------------------------------------
\* Actions of the trace-animation sequencer
\* ---------------------------------------------------------------------------
SetState(s) ==
    /\ activeSpans' = s.activeSpans
    /\ processedSpanIds' = s.processedSpanIds
    /\ eventQueue' = s.eventQueue
    /\ eventQueueTimer' = s.eventQueueTimer
    /\ lastEventActivationTime' = s.lastEventActivationTime
    /\ lastChatSpanId' = s.lastChatSpanId
    /\ parentMap' = s.parentMap
    /\ ancestorInfoMap' = s.ancestorInfoMap
    /\ pendingToolSpans' = s.pendingToolSpans
    /\ sent' = s.sent

\* the active:true notifications of a handler, as <<spanId, time, startTime>> records
RECURSIVE ActivationsOf(_, _)
ActivationsOf(log, time) ==
    IF Len(log) = 0 THEN <<>>
    ELSE IF Head(log).active
         THEN <<[spanId |-> Head(log).spanId, time |-> time,
                 startTime |-> SpanTime(SpanTable[Head(log).spanId])]>>
              \o ActivationsOf(Tail(log), time)
         ELSE ActivationsOf(Tail(log), time)

\* no active:true notification yet since init
NoActivation == [spanId |-> Undefined, time |-> 0, startTime |-> 0]

\* the last activation up to and including the handler that has just run
LastActivation ==
    IF ActivationsOf(sent, now) = <<>> THEN prevActivation
    ELSE ActivationsOf(sent, now)[Len(ActivationsOf(sent, now))]

Observe(s) ==
    /\ prevActivation' = LastActivation
    /\ activationCount' =
           [id \in SpanIds |->
               activationCount[id]
               + Cardinality({i \in 1..Len(s.sent) : s.sent[i].active /\ s.sent[i].spanId = id})]
    /\ deactivationCount' =
           [id \in SpanIds |->
               deactivationCount[id]
               + Cardinality({i \in 1..Len(s.sent) : ~s.sent[i].active /\ s.sent[i].spanId = id})]
    /\ chatAtActivation' =
           [id \in SpanIds |->
               IF \E i \in 1..Len(s.sent) : s.sent[i].active /\ s.sent[i].spanId = id
               THEN IF lastChatSpanId # Undefined /\ ActiveIndex(Cur, lastChatSpanId) # 0
                    THEN lastChatSpanId ELSE Undefined
               ELSE chatAtActivation[id]]

TimerDues ==
    (IF eventQueueTimer = NoTimer THEN {} ELSE {eventQueueTimer})
    \cup {activeSpans[i].timer : i \in 1..Len(activeSpans)}

\* a timer callback may run once it is due and no other timer is due earlier
MayFire(due) == due <= now /\ \A d \in TimerDues : due <= d

\* the clock advances once every due timer callback has run
Tick ==
    /\ now + TickStep <= MaxTime
    /\ \A d \in TimerDues : now < d
    /\ now' = now + TickStep
    /\ sent' = <<>>
    /\ redelivered' = {}
    /\ prevActivation' = LastActivation
    /\ UNCHANGED <<unsubscribe, activeSpans, processedSpanIds, eventQueue, eventQueueTimer,
                   lastEventActivationTime, lastChatSpanId, parentMap, ancestorInfoMap,
                   pendingToolSpans, activationCount, deactivationCount, chatAtActivation,
                   delivered>>
    /\ UNCHANGED nonAnimVars

InitTraceAnimation ==
    /\ SetState(disposeTraceAnimation(Cur))
    /\ unsubscribe' = TRUE
    /\ redelivered' = {}
    /\ prevActivation' = NoActivation
    /\ activationCount' = [id \in SpanIds |-> 0]
    /\ deactivationCount' = [id \in SpanIds |-> 0]
    /\ chatAtActivation' = [id \in SpanIds |-> Undefined]
    /\ delivered' = FALSE
    /\ UNCHANGED now
    /\ UNCHANGED nonAnimVars

DisposeTraceAnimation ==
    /\ SetState(disposeTraceAnimation(Cur))
    /\ unsubscribe' = FALSE
    /\ redelivered' = {}
    /\ prevActivation' = LastActivation
    /\ delivered' = FALSE
    /\ chatAtActivation' = [id \in SpanIds |-> Undefined]
    /\ UNCHANGED <<now, activationCount, deactivationCount>>
    /\ UNCHANGED nonAnimVars

ProcessSpans ==
    /\ unsubscribe
    /\ now <= StartTime + DeliveryWindow
    /\ \E spans \in Batches :
          /\ \E s \in {processSpans(Cur, spans)} : SetState(s) /\ Observe(s)
          /\ redelivered' = {spans[i].spanId : i \in 1..Len(spans)} \cap processedSpanIds
    /\ delivered' = TRUE
    /\ UNCHANGED <<now, unsubscribe>>
    /\ UNCHANGED nonAnimVars

QueueTimerFires ==
    /\ eventQueueTimer # NoTimer
    /\ MayFire(eventQueueTimer)
    /\ \E s \in {processNextEvent(Cur)} : SetState(s) /\ Observe(s)
    /\ redelivered' = {}
    /\ UNCHANGED <<now, unsubscribe, delivered>>
    /\ UNCHANGED nonAnimVars

DeactivationTimerFires ==
    /\ \E i \in 1..Len(activeSpans) :
          /\ MayFire(activeSpans[i].timer)
          /\ \E s \in {deactivationTimeout(Cur, activeSpans[i].spanId, activeSpans[i].event)} :
                SetState(s) /\ Observe(s)
    /\ redelivered' = {}
    /\ UNCHANGED <<now, unsubscribe, delivered>>
    /\ UNCHANGED nonAnimVars

\* the extension's first call of initTraceAnimation
FirstInitTraceAnimation ==
    /\ ~unsubscribe
    /\ ~delivered
    /\ now = StartTime
    /\ InitTraceAnimation

AnimInit ==
    /\ now = StartTime
    /\ unsubscribe = FALSE
    /\ activeSpans = <<>>
    /\ processedSpanIds = {}
    /\ eventQueue = <<>>
    /\ eventQueueTimer = NoTimer
    /\ lastEventActivationTime = 0
    /\ lastChatSpanId = Undefined
    /\ parentMap = <<>>
    /\ ancestorInfoMap = <<>>
    /\ pendingToolSpans = <<>>
    /\ sent = <<>>
    /\ redelivered = {}
    /\ prevActivation = NoActivation
    /\ activationCount = [id \in SpanIds |-> 0]
    /\ deactivationCount = [id \in SpanIds |-> 0]
    /\ chatAtActivation = [id \in SpanIds |-> Undefined]
    /\ delivered = FALSE

\* ---------------------------------------------------------------------------
\* Prompt enhancement: enhancePrompt (extension host) and the handlers of
\* PromptMode (webview)
\* ---------------------------------------------------------------------------
\* longest prompt / model text, in characters
MaxPromptLen == 2
\* longest error message, in tokens
MaxErrorTokens == 2

Chars == {" ", "a"}

Texts == UNION {[1..n -> Chars] : n \in 0..MaxPromptLen}

\* String.prototype.trim
RECURSIVE TrimStart(_)
TrimStart(str) ==
    IF Len(str) > 0 /\ Head(str) = " " THEN TrimStart(Tail(str)) ELSE str

RECURSIVE TrimEnd(_)
TrimEnd(str) ==
    IF Len(str) > 0 /\ str[Len(str)] = " " THEN TrimEnd(SubSeq(str, 1, Len(str) - 1)) ELSE str

Trim(str) == TrimEnd(TrimStart(str))

USAGE_LIMIT_MESSAGE == "Usage limit exceeded. Please try again later or set your own API key."
AUTH_EXPIRED_MESSAGE == "Authentication expired. Please log in again."
NETWORK_ERROR_MESSAGE == "Network error. Please check your connection and try again."
GENERIC_ERROR_MESSAGE == "Failed to enhance prompt. Please try again."

\* an error message is a sequence of fragments; <<>> is a missing or empty message
MessageTokens ==
    {"TOKEN_EXPIRED", "Unsupported login method", "Network", "timeout",
     "Cannot connect to API", "overloaded"}

ErrorMessages == UNION {[1..n -> MessageTokens] : n \in 0..MaxErrorTokens}

\* String.prototype.includes on error.message
Includes(message, fragment) == \E i \in 1..Len(message) : message[i] = fragment

\* statusCode 0 stands for an error without statusCode
ThrownErrors ==
    [name : {"Error", "UsageLimitError"}, statusCode : {0, 429, 500}, message : ErrorMessages]

NoError == [name |-> "none", statusCode |-> 0, message |-> <<>>]

\* what the generateText call of enhancePrompt can do
ModelOutcomes ==
    [ok : {TRUE}, text : Texts, error : {NoError}]
    \cup [ok : {FALSE}, text : {<<>>}, error : ThrownErrors]

NoOutcome == [ok |-> TRUE, text |-> <<>>, error |-> NoError]

Rejected(message, notice) ==
    [status |-> "rejected", enhancedPrompt |-> <<>>, message |-> message, shown |-> notice]

\* enhancePrompt that tests for an expired login before the usage limit
enhancePrompt_authFirst(outcome) ==
    IF outcome.ok
    THEN [status |-> "resolved", enhancedPrompt |-> Trim(outcome.text),
          message |-> "", shown |-> "none"]
    ELSE IF Includes(outcome.error.message, "TOKEN_EXPIRED")
            \/ Includes(outcome.error.message, "Unsupported login method")
    THEN Rejected(AUTH_EXPIRED_MESSAGE, "showWarningMessage")
    ELSE IF outcome.error.name = "UsageLimitError" \/ outcome.error.statusCode = 429
    THEN Rejected(USAGE_LIMIT_MESSAGE, "showErrorMessage")
    ELSE IF Includes(outcome.error.message, "Network")
            \/ Includes(outcome.error.message, "timeout")
            \/ Includes(outcome.error.message, "Cannot connect to API")
    THEN Rejected(NETWORK_ERROR_MESSAGE, "showErrorMessage")
    ELSE Rejected(GENERIC_ERROR_MESSAGE, "showErrorMessage")

\* how the promise returned by enhancePrompt settles, given what generateText did
enhancePrompt(outcome) ==
    IF outcome.ok
    THEN [status |-> "resolved", enhancedPrompt |-> Trim(outcome.text),
          message |-> "", shown |-> "none"]
    ELSE IF outcome.error.name = "UsageLimitError" \/ outcome.error.statusCode = 429
    THEN Rejected(USAGE_LIMIT_MESSAGE, "showErrorMessage")
    ELSE IF Includes(outcome.error.message, "TOKEN_EXPIRED")
            \/ Includes(outcome.error.message, "Unsupported login method")
    THEN Rejected(AUTH_EXPIRED_MESSAGE, "showWarningMessage")
    ELSE IF Includes(outcome.error.message, "Network")
            \/ Includes(outcome.error.message, "timeout")
            \/ Includes(outcome.error.message, "Cannot connect to API")
    THEN Rejected(NETWORK_ERROR_MESSAGE, "showErrorMessage")
    ELSE Rejected(GENERIC_ERROR_MESSAGE, "showErrorMessage")

NoResult == [status |-> "none", enhancedPrompt |-> <<>>, message |-> "", shown |-> "none"]

getCurrentPrompt == editorPrompt

\* a handler that does not await enhancePrompt
ForgetCall == modelOutcome' = NoOutcome /\ enhanceResult' = NoResult

NoClick == [auth |-> "none", prompt |-> <<>>, before |-> "normal", after |-> "normal"]

EnhanceInit ==
    /\ editorPrompt = <<>>
    /\ enhancementState = [mode |-> "normal", originalPrompt |-> <<>>]
    /\ originalPromptRef = <<>>
    /\ enhancedPromptRef = <<>>
    /\ clickPc = "idle"
    /\ clickPrompt = <<>>
    /\ enhancePc = "idle"
    /\ lastClick = NoClick
    /\ modelOutcome = NoOutcome
    /\ enhanceResult = NoResult

\* the user types in the editor (handleChange)
EditPrompt ==
    /\ enhancementState.mode \in {"normal", "preview"}
    /\ \E text \in Texts : editorPrompt' = text
    /\ UNCHANGED <<enhancementState, originalPromptRef, enhancedPromptRef, clickPc,
                   clickPrompt, enhancePc, lastClick>>
    /\ ForgetCall
    /\ UNCHANGED nonEnhanceVars

\* handleEnhanceClick up to its await (or its early return on a blank prompt)
EnhanceClick ==
    /\ enhancementState.mode = "normal"
    /\ clickPc = "idle"
    /\ IF Trim(getCurrentPrompt) = <<>>
       THEN /\ lastClick' = [auth |-> "none", prompt |-> getCurrentPrompt,
                             before |-> enhancementState.mode,
                             after |-> enhancementState.mode]
            /\ UNCHANGED <<clickPc, clickPrompt>>
       ELSE /\ clickPc' = "awaitAuth"
            /\ clickPrompt' = getCurrentPrompt
            /\ UNCHANGED lastClick
    /\ UNCHANGED <<editorPrompt, enhancementState, originalPromptRef, enhancedPromptRef,
                   enhancePc>>
    /\ ForgetCall
    /\ UNCHANGED nonEnhanceVars

\* handleEnhanceClick after isUserAuthenticated() resolved
AuthCheckReturns ==
    /\ clickPc = "awaitAuth"
    /\ \E isAuthenticated \in BOOLEAN :
          IF ~isAuthenticated
          THEN /\ lastClick' = [auth |-> "false", prompt |-> clickPrompt,
                                before |-> enhancementState.mode,
                                after |-> enhancementState.mode]
               /\ UNCHANGED <<enhancementState, originalPromptRef>>
          ELSE /\ originalPromptRef' = clickPrompt
               /\ enhancementState' = [mode |-> "selecting", originalPrompt |-> <<>>]
               /\ lastClick' = [auth |-> "true", prompt |-> clickPrompt,
                                before |-> enhancementState.mode, after |-> "selecting"]
    /\ clickPc' = "idle"
    /\ clickPrompt' = <<>>
    /\ UNCHANGED <<editorPrompt, enhancedPromptRef, enhancePc>>
    /\ ForgetCall
    /\ UNCHANGED nonEnhanceVars

\* handleEnhanceClick after isUserAuthenticated() rejected: the catch block
\* logs the error and the handler carries on
AuthCheckThrows ==
    /\ clickPc = "awaitAuth"
    /\ originalPromptRef' = clickPrompt
    /\ enhancementState' = [mode |-> "selecting", originalPrompt |-> <<>>]
    /\ lastClick' = [auth |-> "threw", prompt |-> clickPrompt,
                     before |-> enhancementState.mode, after |-> "selecting"]
    /\ clickPc' = "idle"
    /\ clickPrompt' = <<>>
    /\ UNCHANGED <<editorPrompt, enhancedPromptRef, enhancePc>>
    /\ ForgetCall
    /\ UNCHANGED nonEnhanceVars

\* handleCloseDialog
CloseDialog ==
    /\ enhancementState.mode = "selecting"
    /\ enhancementState' = [mode |-> "normal", originalPrompt |-> <<>>]
    /\ UNCHANGED <<editorPrompt, originalPromptRef, enhancedPromptRef, clickPc, clickPrompt,
                   enhancePc, lastClick>>
    /\ ForgetCall
    /\ UNCHANGED nonEnhanceVars

\* handleEnhance up to its await
Enhance ==
    /\ enhancementState.mode = "selecting"
    /\ enhancePc = "idle"
    /\ enhancementState' = [mode |-> "enhancing", originalPrompt |-> <<>>]
    /\ enhancePc' = "awaitEnhance"
    /\ UNCHANGED <<editorPrompt, originalPromptRef, enhancedPromptRef, clickPc, clickPrompt,
                   lastClick>>
    /\ ForgetCall
    /\ UNCHANGED nonEnhanceVars

\* enhancePrompt runs in the extension host and handleEnhance resumes
EnhanceSettles ==
    /\ enhancePc = "awaitEnhance"
    /\ \E outcome \in ModelOutcomes :
          /\ modelOutcome' = outcome
          /\ enhanceResult' = enhancePrompt(outcome)
          /\ IF enhancePrompt(outcome).status = "resolved"
             THEN /\ enhancedPromptRef' = enhancePrompt(outcome).enhancedPrompt
                  /\ editorPrompt' = enhancePrompt(outcome).enhancedPrompt
                  /\ enhancementState' = [mode |-> "preview", originalPrompt |-> originalPromptRef]
             ELSE /\ enhancementState' = [mode |-> "normal", originalPrompt |-> <<>>]
                  /\ UNCHANGED <<enhancedPromptRef, editorPrompt>>
    /\ enhancePc' = "idle"
    /\ UNCHANGED <<originalPromptRef, clickPc, clickPrompt, lastClick>>
    /\ UNCHANGED nonEnhanceVars

\* handleBackToEdit
BackToEdit ==
    /\ enhancementState.mode = "preview"
    /\ enhancementState' = [mode |-> "selecting", originalPrompt |-> <<>>]
    /\ enhancedPromptRef' = IF getCurrentPrompt # enhancedPromptRef THEN getCurrentPrompt
                            ELSE enhancedPromptRef
    /\ UNCHANGED <<editorPrompt, originalPromptRef, clickPc, clickPrompt, enhancePc,
                   lastClick>>
    /\ ForgetCall
    /\ UNCHANGED nonEnhanceVars

\* handleAccept
Accept ==
    /\ enhancementState.mode = "preview"
    /\ enhancementState' = [mode |-> "normal", originalPrompt |-> <<>>]
    /\ originalPromptRef' = <<>>
    /\ enhancedPromptRef' = <<>>
    /\ UNCHANGED <<editorPrompt, clickPc, clickPrompt, enhancePc, lastClick>>
    /\ ForgetCall
    /\ UNCHANGED nonEnhanceVars

\* handleReject
Reject ==
    /\ enhancementState.mode = "preview"
    /\ editorPrompt' = originalPromptRef
    /\ enhancementState' = [mode |-> "normal", originalPrompt |-> <<>>]
    /\ originalPromptRef' = <<>>
    /\ enhancedPromptRef' = <<>>
    /\ UNCHANGED <<clickPc, clickPrompt, enhancePc, lastClick>>
    /\ ForgetCall
    /\ UNCHANGED nonEnhanceVars

\* ---------------------------------------------------------------------------
\* Choreo CLI installer: checkExistingCLI
\* ---------------------------------------------------------------------------
CLI_PLATFORMS ==
    <<[assetSuffix |-> "darwin-amd64", os |-> "darwin", arch |-> "amd64", ext |-> ".zip", binary |-> "choreo"],
      [assetSuffix |-> "darwin-arm64", os |-> "darwin", arch |-> "arm64", ext |-> ".zip", binary |-> "choreo"],
      [assetSuffix |-> "linux-amd64", os |-> "linux", arch |-> "amd64", ext |-> ".tar.gz", binary |-> "choreo"],
      [assetSuffix |-> "linux-arm64", os |-> "linux", arch |-> "arm64", ext |-> ".tar.gz", binary |-> "choreo"],
      [assetSuffix |-> "windows-amd64", os |-> "win32", arch |-> "amd64", ext |-> ".zip", binary |-> "choreo.exe"]>>

CLI_RESOURCES_DIR == "resources/choreo-cli"
CLI_CACHE_DIR == "common/temp/choreo-cli"

\* the version in package.json
CliVersion == "1.3.0"

getResourcesBinaryPath(version, platform) ==
    <<CLI_RESOURCES_DIR, version, platform.os, platform.arch, platform.binary>>

getCacheBinaryPath(version, platform) ==
    <<CLI_CACHE_DIR, version, platform.os, platform.arch, platform.binary>>

existsSync(disk, path) == path \in DOMAIN disk

\* fs.copyFileSync: creates dest or replaces its content
copyFileSync(disk, src, dest) == (dest :> disk[src]) @@ disk

PlatformIndexes == 1..Len(CLI_PLATFORMS)

\* restore the missing cache entries from resources
RECURSIVE restoreCache(_, _, _)
restoreCache(disk, version, missing) ==
    IF Len(missing) = 0 THEN disk
    ELSE restoreCache(copyFileSync(disk, getResourcesBinaryPath(version, Head(missing)),
                                   getCacheBinaryPath(version, Head(missing))),
                      version, Tail(missing))

\* restore the missing resources entries from the cache
RECURSIVE restoreResources(_, _, _)
restoreResources(disk, version, missing) ==
    IF Len(missing) = 0 THEN disk
    ELSE restoreResources(copyFileSync(disk, getCacheBinaryPath(version, Head(missing)),
                                       getResourcesBinaryPath(version, Head(missing))),
                          version, Tail(missing))

\* the partial branch: sync every platform that has a binary in one location
RECURSIVE syncPlatforms(_, _, _)
syncPlatforms(disk, version, i) ==
    IF i > Len(CLI_PLATFORMS) THEN disk
    ELSE LET resourcesPath == getResourcesBinaryPath(version, CLI_PLATFORMS[i])
             cachePath == getCacheBinaryPath(version, CLI_PLATFORMS[i])
             resourcesExists == existsSync(disk, resourcesPath)
             cacheExists == existsSync(disk, cachePath)
         IN IF resourcesExists /\ ~cacheExists
            THEN syncPlatforms(copyFileSync(disk, resourcesPath, cachePath), version, i + 1)
            ELSE IF ~resourcesExists /\ cacheExists
            THEN syncPlatforms(copyFileSync(disk, cachePath, resourcesPath), version, i + 1)
            ELSE syncPlatforms(disk, version, i + 1)

missingFromResources(disk, version) ==
    SelectSeq(CLI_PLATFORMS, LAMBDA pf : ~existsSync(disk, getResourcesBinaryPath(version, pf)))

missingFromCache(disk, version) ==
    SelectSeq(CLI_PLATFORMS, LAMBDA pf : ~existsSync(disk, getCacheBinaryPath(version, pf)))

\* checkExistingCLI that gives up when neither location is complete
checkExistingCLI_noPartialSync(disk, version) ==
    IF Len(missingFromResources(disk, version)) = 0 /\ Len(missingFromCache(disk, version)) = 0
    THEN [result |-> TRUE, disk |-> disk]
    ELSE IF Len(missingFromResources(disk, version)) = 0
    THEN [result |-> TRUE, disk |-> restoreCache(disk, version, missingFromCache(disk, version))]
    ELSE IF Len(missingFromCache(disk, version)) = 0
    THEN [result |-> TRUE,
          disk |-> restoreResources(disk, version, missingFromResources(disk, version))]
    ELSE [result |-> FALSE, disk |-> disk]

\* the return value and the disk after the call
checkExistingCLI(disk, version) ==
    IF Len(missingFromResources(disk, version)) = 0 /\ Len(missingFromCache(disk, version)) = 0
    THEN [result |-> TRUE, disk |-> disk]
    ELSE IF Len(missingFromResources(disk, version)) = 0
    THEN [result |-> TRUE, disk |-> restoreCache(disk, version, missingFromCache(disk, version))]
    ELSE IF Len(missingFromCache(disk, version)) = 0
    THEN [result |-> TRUE,
          disk |-> restoreResources(disk, version, missingFromResources(disk, version))]
    ELSE LET synced == syncPlatforms(disk, version, 1)
         IN [result |-> Len(missingFromResources(synced, version)) = 0, disk |-> synced]

BinaryPaths ==
    {getResourcesBinaryPath(CliVersion, CLI_PLATFORMS[i]) : i \in PlatformIndexes}
    \cup {getCacheBinaryPath(CliVersion, CLI_PLATFORMS[i]) : i \in PlatformIndexes}

\* what a binary holds: a copy in resources and one in the cache may come from
\* different downloads
ContentOf(path) == IF path[1] = CLI_RESOURCES_DIR THEN "download-1" ELSE "download-2"

EmptyDisk == [path \in {} |-> "none"]

CliInit ==
    /\ fs = EmptyDisk
    /\ cliReturn = "none"
    /\ fsBefore = EmptyDisk

\* any set of binaries may be on disk when the installer starts
CliAnyDisk ==
    /\ \E present \in SUBSET BinaryPaths : fs = [path \in present |-> ContentOf(path)]
    /\ cliReturn = "none"
    /\ fsBefore = EmptyDisk

CheckExistingCLI ==
    /\ fsBefore' = fs
    /\ fs' = checkExistingCLI(fs, CliVersion).disk
    /\ cliReturn' = IF checkExistingCLI(fs, CliVersion).result THEN "true" ELSE "false"
    /\ UNCHANGED nonCliVars

\* 'rush purge' removes the resources directory; the cache survives it
RushPurge ==
    /\ \E path \in DOMAIN fs : path[1] = CLI_RESOURCES_DIR
    /\ fs' = [path \in {q \in DOMAIN fs : q[1] # CLI_RESOURCES_DIR} |-> fs[path]]
    /\ cliReturn' = "none"
    /\ fsBefore' = EmptyDisk
    /\ UNCHANGED nonCliVars

CliNext ==
    \/ CheckExistingCLI
    \/ RushPurge

\* ---------------------------------------------------------------------------
\* Evaluation history: loadReportData
\* ---------------------------------------------------------------------------
MaxFiles == 3

RESULTS_SUFFIX == "_test_results.json"
HTML_SUFFIX == ".html"

\* A file name is its prefix and its suffix.  A timestamp prefix
\* YYYY-MM-DD_HH-00-00-000 is the tuple <<year, month, day, hour>>; any other
\* prefix is the empty tuple (a name such as latest_test_results.json).
NoStamp == <<>>

Stamps == {<<2026, 2, 30, 0>>, <<2026, 3, 1, 0>>, <<2026, 3, 2, 0>>}

FileNames ==
    [prefix : Stamps \cup {NoStamp}, suffix : {RESULTS_SUFFIX}]
    \cup [prefix : {<<2026, 2, 30, 0>>, <<2026, 3, 1, 0>>}, suffix : {HTML_SUFFIX}]

FloorDiv(a, b) == IF a >= 0 THEN a \div b ELSE -((-a + b - 1) \div b)

IsLeapYear(y) == (y % 4 = 0 /\ y % 100 # 0) \/ y % 400 = 0

\* days from 0000-01-01 to the first day of year y (y >= 1)
DaysBeforeYear(y) == 365 * y + FloorDiv(y + 3, 4) - FloorDiv(y + 99, 100) + FloorDiv(y + 399, 400)

MonthLengths(y) ==
    <<31, IF IsLeapYear(y) THEN 29 ELSE 28, 31, 30, 31, 30, 31, 31, 30, 31, 30, 31>>

RECURSIVE DaysBeforeMonth(_, _)
DaysBeforeMonth(y, monthIndex) ==
    IF monthIndex = 0 THEN 0
    ELSE MonthLengths(y)[monthIndex] + DaysBeforeMonth(y, monthIndex - 1)

\* new Date(year, monthIndex, day, hour): a two-digit year counts from 1900, and
\* a month, day or hour out of range carries into the next unit.  The value is
\* in hours.
MakeDate(year, monthIndex, day, hour) ==
    LET fullYear == IF year >= 0 /\ year <= 99 THEN 1900 + year ELSE year
        y == fullYear + FloorDiv(monthIndex, 12)
        m == monthIndex - 12 * FloorDiv(monthIndex, 12)
    IN (DaysBeforeYear(y) + DaysBeforeMonth(y, m) + (day - 1)) * 24 + hour

NoDate == -1

parseDateFromFilename(filename) ==
    IF filename.prefix = NoStamp THEN NoDate
    ELSE MakeDate(filename.prefix[1], filename.prefix[2] - 1, filename.prefix[3],
                  filename.prefix[4])

\* string order of two names with the same suffix: digits sort before letters,
\* zero-padded fields of equal width sort as their numbers
RECURSIVE TupleLess(_, _)
TupleLess(a, b) ==
    IF Len(a) = 0 \/ Len(b) = 0 THEN FALSE
    ELSE IF Head(a) # Head(b) THEN Head(a) < Head(b)
    ELSE TupleLess(Tail(a), Tail(b))

NameLess(a, b) ==
    IF a.prefix = NoStamp THEN FALSE
    ELSE IF b.prefix = NoStamp THEN TRUE
    ELSE TupleLess(a.prefix, b.prefix)

RECURSIVE InsertName(_, _)
InsertName(sorted, name) ==
    IF Len(sorted) = 0 THEN <<name>>
    ELSE IF NameLess(name, Head(sorted)) THEN <<name>> \o sorted
    ELSE <<Head(sorted)>> \o InsertName(Tail(sorted), name)

\* Array.prototype.sort() on the names
RECURSIVE SortNamesAlphabetically(_)
SortNamesAlphabetically(names) ==
    IF Len(names) = 0 THEN <<>>
    ELSE InsertName(SortNamesAlphabetically(SubSeq(names, 1, Len(names) - 1)),
                    names[Len(names)])

\* the content of a results file: text that is not JSON, or the parsed document
Broken == [valid |-> FALSE, projectName |-> "", moduleStatus |-> <<>>]

EvalTest(name, status) == [name |-> name, isEvaluation |-> TRUE, status |-> status]

UnitTest(name) == [name |-> name, isEvaluation |-> FALSE, status |-> "PASSED"]

Document(modules) == [valid |-> TRUE, projectName |-> "proj", moduleStatus |-> modules]

ReportContents ==
    {Broken,
     Document(<<>>),
     Document(<<[tests |-> <<EvalTest("t1", "PASSED")>>]>>),
     Document(<<[tests |-> <<EvalTest("t2", "FAILED")>>]>>),
     Document(<<[tests |-> <<UnitTest("t3")>>]>>),
     Document(<<[tests |-> <<EvalTest("t1", "PASSED"), UnitTest("t3")>>],
                [tests |-> <<EvalTest("t2", "PASSED")>>]>>)}

\* an HTML report is never read
ContentsFor(name) == IF name.suffix = RESULTS_SUFFIX THEN ReportContents ELSE {Broken}

\* find() found nothing
NoFile == [prefix |-> NoStamp, suffix |-> ""]

\* files.find(f => f.startsWith(tsPrefix) && f.endsWith(".html"))
RECURSIVE findHtml(_, _)
findHtml(files, tsPrefix) ==
    IF Len(files) = 0 THEN NoFile
    ELSE IF Head(files).prefix = tsPrefix /\ Head(files).suffix = HTML_SUFFIX THEN Head(files)
    ELSE findHtml(Tail(files), tsPrefix)

TestIndex(tests, testName) ==
    IF \E i \in 1..Len(tests) : tests[i].testName = testName
    THEN CHOOSE i \in 1..Len(tests) : tests[i].testName = testName
    ELSE 0

\* testMap.get(testName).runs.push(run), creating the entry first if needed
pushRun(tests, testName, projectName, run) ==
    LET i == TestIndex(tests, testName)
    IN IF i = 0
       THEN Append(tests, [testName |-> testName, runs |-> <<run>>, projectName |-> projectName])
       ELSE [tests EXCEPT ![i].runs = Append(@, run)]

RECURSIVE addTests(_, _, _, _)
addTests(tests, list, projectName, base) ==
    IF Len(list) = 0 THEN tests
    ELSE IF ~Head(list).isEvaluation THEN addTests(tests, Tail(list), projectName, base)
    ELSE addTests(pushRun(tests, Head(list).name, projectName,
                          [base EXCEPT !.status = IF Head(list).status = "PASSED"
                                                  THEN "PASSED" ELSE "FAILURE"]),
                  Tail(list), projectName, base)

RECURSIVE addModules(_, _, _, _)
addModules(tests, modules, projectName, base) ==
    IF Len(modules) = 0 THEN tests
    ELSE addModules(addTests(tests, Head(modules).tests, projectName, base),
                    Tail(modules), projectName, base)

\* the loop over the sorted results files
RECURSIVE loadFiles(_, _, _, _)
loadFiles(acc, jsonFiles, files, dir) ==
    IF Len(jsonFiles) = 0 THEN acc
    ELSE LET jsonFile == Head(jsonFiles)
             date == parseDateFromFilename(jsonFile)
             htmlFile == findHtml(files, jsonFile.prefix)
             base == [date |-> date, status |-> "PASSED", htmlReportPath |-> htmlFile,
                      jsonFile |-> jsonFile]
         IN IF date = NoDate \/ ~dir[jsonFile].valid
            THEN loadFiles(acc, Tail(jsonFiles), files, dir)
            ELSE loadFiles([tests |-> addModules(acc.tests, dir[jsonFile].moduleStatus,
                                                 dir[jsonFile].projectName, base),
                            totalRunFiles |-> acc.totalRunFiles + 1,
                            projectNames |-> acc.projectNames \cup {dir[jsonFile].projectName}],
                           Tail(jsonFiles), files, dir)

RECURSIVE InsertRun(_, _)
InsertRun(sorted, run) ==
    IF Len(sorted) = 0 THEN <<run>>
    ELSE IF run.date < Head(sorted).date THEN <<run>> \o sorted
    ELSE <<Head(sorted)>> \o InsertRun(Tail(sorted), run)

\* runs.sort((a, b) => a.date.getTime() - b.date.getTime()), a stable sort
RECURSIVE SortRuns(_)
SortRuns(runs) ==
    IF Len(runs) = 0 THEN <<>>
    ELSE InsertRun(SortRuns(SubSeq(runs, 1, Len(runs) - 1)), runs[Len(runs)])

EmptyData == [tests |-> <<>>, totalRunFiles |-> 0, projectNames |-> {}]

\* loadReportData that trusts the alphabetical order of the file names
loadReportData_noFinalSort(files, dir) ==
    loadFiles(EmptyData,
              SortNamesAlphabetically(SelectSeq(files, LAMBDA f : f.suffix = RESULTS_SUFFIX)),
              files, dir)

\* files is what readdirSync lists, dir the content of the files
loadReportData(files, dir) ==
    LET jsonFiles == SortNamesAlphabetically(SelectSeq(files, LAMBDA f : f.suffix = RESULTS_SUFFIX))
        loaded == loadFiles(EmptyData, jsonFiles, files, dir)
    IN [loaded EXCEPT !.tests = [i \in 1..Len(loaded.tests) |->
                                    [loaded.tests[i] EXCEPT !.runs = SortRuns(@)]]]

\* the orders in which readdirSync may list a directory
Listings(dir) ==
    {files \in [1..Cardinality(DOMAIN dir) -> DOMAIN dir] :
        \A i, j \in 1..Cardinality(DOMAIN dir) : i # j => files[i] # files[j]}

NoData == [tests |-> <<>>, totalRunFiles |-> -1, projectNames |-> {}]

EmptyDir == [name \in {} |-> Broken]

ReportInit ==
    /\ reportsDir = EmptyDir
    /\ reportData = NoData

\* a test run (or the user) leaves a file in the reports directory
WriteReportFile ==
    /\ \E name \in FileNames : \E content \in ContentsFor(name) :
          /\ name \in DOMAIN reportsDir \/ Cardinality(DOMAIN reportsDir) < MaxFiles
          /\ reportsDir' = (name :> content) @@ reportsDir
    /\ reportData' = NoData
    /\ UNCHANGED nonReportVars

LoadReportData ==
    /\ \E files \in Listings(reportsDir) : reportData' = loadReportData(files, reportsDir)
    /\ UNCHANGED reportsDir
    /\ UNCHANGED nonReportVars

ReportNext ==
    \/ WriteReportFile
    \/ LoadReportData


Init == AnimInit /\ EnhanceInit /\ CliInit /\ ReportInit

Next ==
    \/ Tick
    \/ InitTraceAnimation
    \/ DisposeTraceAnimation
    \/ ProcessSpans
    \/ QueueTimerFires
    \/ DeactivationTimerFires

Spec == Init /\ [][Next]_vars

EnhanceNext ==
    \/ EditPrompt
    \/ EnhanceClick
    \/ AuthCheckReturns
    \/ AuthCheckThrows
    \/ CloseDialog
    \/ Enhance
    \/ EnhanceSettles
    \/ BackToEdit
    \/ Accept
    \/ Reject

\* setTimeout callbacks run once they are due, and the clock keeps advancing
TimersRun ==
    /\ WF_vars(Tick)
    /\ WF_vars(QueueTimerFires)
    /\ WF_vars(DeactivationTimerFires)

\* the sequencer when disposeTraceAnimation is never called after the first
\* initTraceAnimation
NextUndisposed ==
    \/ Tick
    \/ FirstInitTraceAnimation
    \/ ProcessSpans
    \/ QueueTimerFires
    \/ DeactivationTimerFires

SpecTimers == Init /\ [][NextUndisposed]_vars /\ TimersRun

SpecEnhance == Init /\ [][EnhanceNext]_vars

SpecReport == Init /\ [][ReportNext]_vars

\* the installer may find any set of binaries on disk
InitCLI == AnimInit /\ EnhanceInit /\ CliAnyDisk /\ ReportInit

SpecCLI == InitCLI /\ [][CliNext]_vars

TypeOK == now \in StartTime..MaxTime

\* ---------------------------------------------------------------------------
\* Properties of the trace-animation sequencer
\* ---------------------------------------------------------------------------
\* the activations up to the last handler: the one before it, then its own
RecentActivations ==
    (IF prevActivation = NoActivation THEN <<>> ELSE <<prevActivation>>)
    \o ActivationsOf(sent, now)

\* C1: between initTraceAnimation and the next disposeTraceAnimation, any two
\* consecutive active:true notifications are sent at least
\* EVENT_STAGGER_DELAY_MS apart.
StaggerRespected ==
    unsubscribe =>
        \A i \in 1..(Len(RecentActivations) - 1) :
            RecentActivations[i + 1].time - RecentActivations[i].time >= EVENT_STAGGER_DELAY_MS

\* C1 witness: an activation sent by the queue timer exactly one stagger delay
\* after the previous one.
StaggerWitness ==
    /\ unsubscribe
    /\ Len(RecentActivations) = 2
    /\ RecentActivations[2].time - RecentActivations[1].time = EVENT_STAGGER_DELAY_MS
    /\ RecentActivations[1].time + TickStep < RecentActivations[2].time
    /\ redelivered = {}
    /\ ActivationsOf(sent, now) # <<>>

\* C2: active:true notifications are sent in nondecreasing order of span
\* startTime, for all event types, even when batches arrive out of order.
ChronologicalActivations ==
    unsubscribe =>
        \A i \in 1..(Len(RecentActivations) - 1) :
            RecentActivations[i].startTime <= RecentActivations[i + 1].startTime

\* C3: between initTraceAnimation and the next disposeTraceAnimation each span
\* id receives at most one active:true notification.
AtMostOneActivation == \A id \in SpanIds : activationCount[id] <= 1

\* C3 witness: an already activated span is delivered again, and a tool span
\* that was buffered has been drained and activated.
DuplicateDeliveryWitness ==
    /\ \E id \in redelivered : activationCount[id] = 1
    /\ activationCount["toolB"] = 1
    /\ activationCount["chatB"] = 1

\* the spans of the table at or under span a
RECURSIVE IsUnder(_, _)
IsUnder(id, a) ==
    IF id = a THEN TRUE
    ELSE IF id \notin SpanIds THEN FALSE
    ELSE IsUnder(SpanTable[id].parentSpanId, a)

AgentTree(a) == {id \in SpanIds : IsUnder(id, a)}

\* the nearest invoke_agent span at or above a span
RECURSIVE AgentOf(_)
AgentOf(id) ==
    IF id \notin SpanIds THEN Undefined
    ELSE IF getSpanType(SpanTable[id].name) = "invoke_agent" THEN id
    ELSE AgentOf(SpanTable[id].parentSpanId)

PendingIds == {pendingToolSpans[i].span.spanId : i \in 1..Len(pendingToolSpans)}

\* C4: once every span of an agent tree holding a chat span with system
\* instructions and an execute_tool span has been delivered, no span of that
\* tree stays in pendingToolSpans.
AgentTreeResolved ==
    \A a \in SpanIds :
        (/\ getSpanType(SpanTable[a].name) = "invoke_agent"
         /\ \E c \in AgentTree(a) : /\ getSpanType(SpanTable[c].name) = "chat"
                                     /\ extractSystemInstructions(Span(c, TRUE)) # Undefined
         /\ \E x \in AgentTree(a) : getSpanType(SpanTable[x].name) = "execute_tool"
         /\ AgentTree(a) \subseteq processedSpanIds)
        => PendingIds \cap AgentTree(a) = {}

\* the execute_tool events the module holds or has just sent
ToolEvents ==
    {e \in {eventQueue[i].event : i \in 1..Len(eventQueue)}
            \cup {activeSpans[i].event : i \in 1..Len(activeSpans)}
            \cup {sent[i] : i \in 1..Len(sent)} : e.type = "execute_tool"}

\* the agent info a chat or invoke_agent span of the table carries
InfoOfSpan(id) ==
    [systemInstructions |-> extractSystemInstructions(Span(id, TRUE)),
     toolNames |-> IF getSpanType(SpanTable[id].name) = "chat"
                   THEN extractToolNamesFromChatSpan(Span(id, TRUE)) ELSE <<>>]

\* C5: the systemInstructions and toolNames of an execute_tool event are those
\* of a chat or invoke_agent span under the same invoke_agent ancestor as the
\* tool span; a tool never gets the info of another agent.
ToolInfoFromOwnAgent ==
    \A e \in ToolEvents :
        \E src \in SpanIds :
            /\ getSpanType(SpanTable[src].name) \in {"chat", "invoke_agent"}
            /\ AgentOf(src) = AgentOf(e.spanId)
            /\ InfoOfSpan(src) = [systemInstructions |-> e.systemInstructions,
                                  toolNames |-> e.toolNames]

AllClear ==
    /\ activeSpans = <<>>
    /\ eventQueue = <<>>
    /\ processedSpanIds = {}
    /\ DOMAIN parentMap = {}
    /\ DOMAIN ancestorInfoMap = {}
    /\ pendingToolSpans = <<>>
    /\ eventQueueTimer = NoTimer

\* C6: after disposeTraceAnimation everything is empty, no timer is pending,
\* and nothing is sent until spans are delivered after a later init.
DisposeClearsAll == ~delivered => (AllClear /\ sent = <<>>)

\* C6 witness: disposed while the deactivation timer of the last activation
\* was still pending.
DisposeWitness ==
    /\ ~unsubscribe
    /\ prevActivation # NoActivation
    /\ now < prevActivation.time + FADE_OUT_DELAY_MS
    /\ AllClear

\* ---------------------------------------------------------------------------
\* Properties of prompt enhancement
\* ---------------------------------------------------------------------------
UsageLimitHit(error) == error.name = "UsageLimitError" \/ error.statusCode = 429

LoginExpired(error) ==
    Includes(error.message, "TOKEN_EXPIRED") \/ Includes(error.message, "Unsupported login method")

NetworkDown(error) ==
    \/ Includes(error.message, "Network")
    \/ Includes(error.message, "timeout")
    \/ Includes(error.message, "Cannot connect to API")

\* C7: when the model call fails enhancePrompt never resolves; it rejects with
\* one of four fixed messages, chosen by first match: usage limit, then
\* authentication expired, then network error, else the generic message.
FailureMapsToFixedMessage ==
    ~modelOutcome.ok =>
        /\ enhanceResult.status = "rejected"
        /\ enhanceResult.message \in {USAGE_LIMIT_MESSAGE, AUTH_EXPIRED_MESSAGE,
                                      NETWORK_ERROR_MESSAGE, GENERIC_ERROR_MESSAGE}
        /\ UsageLimitHit(modelOutcome.error) => enhanceResult.message = USAGE_LIMIT_MESSAGE
        /\ (~UsageLimitHit(modelOutcome.error) /\ LoginExpired(modelOutcome.error))
               => enhanceResult.message = AUTH_EXPIRED_MESSAGE
        /\ (/\ ~UsageLimitHit(modelOutcome.error)
            /\ ~LoginExpired(modelOutcome.error)
            /\ NetworkDown(modelOutcome.error))
               => enhanceResult.message = NETWORK_ERROR_MESSAGE
        /\ (/\ ~UsageLimitHit(modelOutcome.error)
            /\ ~LoginExpired(modelOutcome.error)
            /\ ~NetworkDown(modelOutcome.error))
               => enhanceResult.message = GENERIC_ERROR_MESSAGE

\* C7 witness: a 429 error whose message also names an expired token and a
\* network failure was mapped, and the editor went back to normal.
FailureWitness ==
    /\ ~modelOutcome.ok
    /\ modelOutcome.error.statusCode = 429
    /\ LoginExpired(modelOutcome.error)
    /\ NetworkDown(modelOutcome.error)
    /\ enhanceResult.message = USAGE_LIMIT_MESSAGE
    /\ enhancementState.mode = "normal"

\* C8: handleEnhanceClick enters 'selecting' only when the prompt is non-blank
\* and the authentication check has returned true; otherwise it leaves the
\* enhancement state unchanged.
EnhanceClickRequiresAuth ==
    IF lastClick.auth = "true" /\ Trim(lastClick.prompt) # <<>>
    THEN lastClick.after = "selecting"
    ELSE lastClick.after = lastClick.before

HasBinary(disk, i) ==
    \/ existsSync(disk, getResourcesBinaryPath(CliVersion, CLI_PLATFORMS[i]))
    \/ existsSync(disk, getCacheBinaryPath(CliVersion, CLI_PLATFORMS[i]))

HasBothBinaries(disk, i) ==
    /\ existsSync(disk, getResourcesBinaryPath(CliVersion, CLI_PLATFORMS[i]))
    /\ existsSync(disk, getCacheBinaryPath(CliVersion, CLI_PLATFORMS[i]))

\* C9: checkExistingCLI returns true exactly when, before the call, every
\* platform has its binary in resources or in the cache; when it returns true
\* every platform has its binary in both; and every binary that existed before
\* the call still exists with the same content.
CheckExistingCLIContract ==
    cliReturn # "none" =>
        /\ (cliReturn = "true") <=> (\A i \in PlatformIndexes : HasBinary(fsBefore, i))
        /\ (cliReturn = "true") => (\A i \in PlatformIndexes : HasBothBinaries(fs, i))
        /\ \A path \in DOMAIN fsBefore : path \in DOMAIN fs /\ fs[path] = fsBefore[path]

\* C9 witness: neither location was complete, every platform had a binary
\* somewhere, and the call returned true after copying in both directions.
PartialSyncWitness ==
    /\ cliReturn = "true"
    /\ \E i \in PlatformIndexes :
          ~existsSync(fsBefore, getResourcesBinaryPath(CliVersion, CLI_PLATFORMS[i]))
    /\ \E i \in PlatformIndexes :
          ~existsSync(fsBefore, getCacheBinaryPath(CliVersion, CLI_PLATFORMS[i]))
    /\ \E path \in DOMAIN fs : path \notin DOMAIN fsBefore /\ fs[path] = "download-1"
    /\ \E path \in DOMAIN fs : path \notin DOMAIN fsBefore /\ fs[path] = "download-2"

\* C10: in the data loadReportData returns, every test has at least one run and
\* its runs are in ascending order of the date parsed from the name of the
\* report file each run came from.
RunsSortedByDate ==
    reportData # NoData =>
        \A i \in 1..Len(reportData.tests) :
            /\ Len(reportData.tests[i].runs) >= 1
            /\ \A j, k \in 1..Len(reportData.tests[i].runs) :
                  j < k => parseDateFromFilename(reportData.tests[i].runs[j].jsonFile)
                             <= parseDateFromFilename(reportData.tests[i].runs[k].jsonFile)

\* C10 witness: a test has two runs whose files sort the other way round by
\* name than by parsed date.
RunsReorderedWitness ==
    /\ reportData # NoData
    /\ \E i \in 1..Len(reportData.tests) :
          \E j, k \in 1..Len(reportData.tests[i].runs) :
              /\ j < k
              /\ NameLess(reportData.tests[i].runs[k].jsonFile,
                          reportData.tests[i].runs[j].jsonFile)
              /\ reportData.tests[i].runs[j].date < reportData.tests[i].runs[k].date

InQueue(id) == \E i \in 1..Len(eventQueue) : eventQueue[i].span.spanId = id

\* the last handler sent active:true for the span
JustActivated(id) == \E i \in 1..Len(sent) : sent[i].active /\ sent[i].spanId = id

\* C11: when disposeTraceAnimation is not called, a non-empty event queue
\* always has a queue timer pending between handlers, an event leaves the queue
\* only by being sent as an activation, and a non-empty queue is eventually
\* emptied; so every enqueued event is eventually sent as an activation.
QueueNeverStalls ==
    /\ [](eventQueue # <<>> => eventQueueTimer # NoTimer)
    /\ [][\A id \in SpanIds : (InQueue(id) /\ ~InQueue(id)') => JustActivated(id)']_vars
    /\ (eventQueue # <<>>) ~> (eventQueue = <<>>)

\* C11 witness: the queue timer has just dequeued one event, two more are
\* waiting and the timer is armed again.
QueueBacklogWitness ==
    /\ Len(eventQueue) >= 2
    /\ eventQueueTimer = now + EVENT_STAGGER_DELAY_MS
    /\ redelivered = {}
    /\ prevActivation # NoActivation
    /\ ActivationsOf(sent, now) # <<>>

Outstanding == {id \in SpanIds : activationCount[id] > deactivationCount[id]}

\* C12: when disposeTraceAnimation is not called, a span never has more
\* active:false than active:true notifications, it is sent active:true at most
\* once, and whenever some span has been sent active:true without its
\* active:false yet, eventually every span sent active:true has been sent
\* exactly one active:false.
EveryActivationDeactivatedOnce ==
    /\ [](\A id \in SpanIds : deactivationCount[id] <= activationCount[id]
                                /\ activationCount[id] <= 1)
    /\ (Outstanding # {}) ~> (Outstanding = {})

\* C12 witness: the chat span, whose timer was re-armed when the tool was
\* dequeued, has been sent its one active:false by that timer, after the tool's.
ChatDeactivatedWitness ==
    /\ delivered
    /\ activationCount["chatB"] = 1
    /\ deactivationCount["chatB"] = 1
    /\ activationCount["toolB"] = 1
    /\ deactivationCount["toolB"] = 1
    /\ \E i \in 1..Len(sent) : ~sent[i].active /\ sent[i].spanId = "chatB"
    /\ now >= StartTime + SAFETY_TIMEOUT_MS

ActiveTools(spans) ==
    {spans[i].spanId : i \in {j \in 1..Len(spans) : spans[j].event.type = "execute_tool"}}

\* C13: whenever a handler sends a chat's active:true, every execute_tool span
\* that was active when the handler started has been sent active:false earlier
\* in that handler, and no execute_tool span is active when the handler ends.
ChatSweepsTools ==
    [][\A k \in 1..Len(sent') :
          (sent'[k].active /\ sent'[k].type = "chat") =>
              /\ \A id \in ActiveTools(activeSpans) :
                    \E j \in 1..(k - 1) : ~sent'[j].active /\ sent'[j].spanId = id
              /\ ActiveTools(activeSpans') = {}]_vars

\* C13 witness: the queue timer dequeued the second chat while the tool was
\* still active; the tool's active:false went out first, then the chat's
\* active:true.
ChatSweepWitness ==
    /\ Len(sent) = 2
    /\ ~sent[1].active /\ sent[1].spanId = "toolB"
    /\ sent[2].active /\ sent[2].spanId = "chatC"
    /\ ActiveIndex(Cur, "toolB") = 0
    /\ ActiveIndex(Cur, "chatC") # 0

\* C14: an execute_tool span that was sent active:true while the last chat
\* span was active is never still active once that chat span has been sent
\* active:false; the chat span outlives the tool.
ChatOutlivesTool ==
    \A id \in ActiveTools(activeSpans) :
        chatAtActivation[id] # Undefined => ActiveIndex(Cur, chatAtActivation[id]) # 0

====
